---- MODULE Spec2Model ----
(***************************************************************************)
(* Model of dashboard/src/resourceManager/ResourceManager.js: the          *)
(* ResourceManager (key -> Resource mapping, updateResource) and the       *)
(* Resource (update, fetch/reload/submit, on/once/emit).                   *)
(*                                                                         *)
(* JavaScript runs the code on one thread; fetch() suspends only at        *)
(* `await call(...)`.  So every action below is one synchronous run:       *)
(* the part of fetch() up to the await, the continuation of fetch() after  *)
(* the promise settles, or a whole call of another method.                 *)
(***************************************************************************)
EXTENDS Integers, Sequences, FiniteSets, TLC

VARIABLES resources, calls, callCount, now, vmFlag, fired, last, since, acc

vars == <<resources, calls, callCount, now, vmFlag, fired, last, since, acc>>

(***************************************************************************)
(* Bounds of the model.                                                    *)
(***************************************************************************)
\* invocations of the call collaborator in one behaviour
MaxCalls == 2
\* handlers held by one listener list (on()/once() calls on one key)
MaxListeners == 2
\* saturation of the per-handler history counters
MaxCount == 3

(***************************************************************************)
(* JavaScript values held by data / default / responses.  A value is a     *)
(* tagged record; an array holds integers, and an object that ends up as   *)
(* an array element (concat of a non-array) is held as the negated id.     *)
(***************************************************************************)
Undefined == [t |-> "undefined", v |-> <<>>]
Null == [t |-> "null", v |-> <<>>]
Arr(s) == [t |-> "array", v |-> s]
Obj(n) == [t |-> "object", v |-> <<n>>]

\* JavaScript truthiness of a value (arrays and objects are truthy)
Truthy(x) == x.t \notin {"undefined", "null"}
\* Array.isArray
IsArray(x) == x.t = "array"
\* a || b
OrElse(a, b) == IF Truthy(a) THEN a ELSE b
\* the elements Array.prototype.concat takes from one argument
ConcatItems(x) == IF IsArray(x) THEN x.v ELSE <<0 - x.v[1]>>
\* [].concat(a, b)
Concat(a, b) == Arr(ConcatItems(a) \o ConcatItems(b))

\* null for string-valued fields (params, error) and for lastLoaded
NULL == "null"
NullTime == 0

(***************************************************************************)
(* Resource definitions (the options argument of new Resource / update).   *)
(* str: the definition is a bare method string.  A key that is absent in   *)
(* the JavaScript object is "" (method, condition), NULL (params), FALSE   *)
(* (auto, keepData, paged: `x || false` reads both alike) or Undefined     *)
(* (default).  hooks: the remaining keys of the object with their values,  *)
(* in key order.                                                           *)
(***************************************************************************)
NoHooks == <<>>
Hook(key, handler) == [key |-> key, handler |-> handler]

Options(method, params, auto, keepData, condition, paged, default, hooks) ==
    [str |-> FALSE, method |-> method, params |-> params, auto |-> auto,
     keepData |-> keepData, condition |-> condition, paged |-> paged,
     default |-> default, hooks |-> hooks]

MethodString(method) ==
    [str |-> TRUE, method |-> method, params |-> NULL, auto |-> FALSE,
     keepData |-> FALSE, condition |-> "", paged |-> FALSE,
     default |-> Undefined, hooks |-> NoHooks]

\* the definitions the host supplies in this model
Defs ==
    { MethodString("a"),
      MethodString("b"),
      Options("a", "p1", FALSE, FALSE, "", FALSE, Undefined, NoHooks),
      Options("a", "p2", TRUE, TRUE, "", FALSE, Undefined, NoHooks),
      Options("a", NULL, FALSE, FALSE, "", FALSE, Obj(1), NoHooks),
      Options("a", NULL, TRUE, FALSE, "", TRUE, Undefined, NoHooks),
      Options("a", "p1", FALSE, TRUE, "", TRUE, Obj(1), NoHooks),
      Options("a", NULL, FALSE, FALSE, "false", FALSE, Undefined, NoHooks),
      Options("a", NULL, TRUE, FALSE, "vm", FALSE, Undefined, NoHooks),
      Options("", "p2", TRUE, FALSE, "", FALSE, Undefined, NoHooks),
      Options("b", "p1", FALSE, TRUE, "", FALSE, Undefined, NoHooks),
      Options("a", NULL, FALSE, FALSE, "", FALSE, Undefined,
              <<Hook("onSuccess", "h2"), Hook("onceSuccess", "h1"),
                Hook("onError", "hThrow")>>) }

\* initialValue arguments of a direct update(): undefined or a value
InitialValues == {Undefined, Obj(1)}

\* what the call collaborator resolves with, and the messages it rejects with
Responses == {Arr(<<1>>), Arr(<<2>>), Obj(1)}
Failures == {<<"e1">>, <<"e1", "e2">>}

Keys == {"list"}
Handlers == {"h1", "h2"}
\* event names passed to on() / once() by callers, and emitted
EventArgs == {"Success", "Error", "onSuccess", "onError"}
Events == {"Success", "Error"}

(***************************************************************************)
(* Resource                                                                *)
(***************************************************************************)
\* lines 76-78 and 90-92: a bare string is { method, auto: true }
Normalize(options) ==
    IF options.str
    THEN [options EXCEPT !.str = FALSE, !.auto = TRUE]
    ELSE options

\* Object.keys(options)
OptionKeys(options) ==
    <<"method", "params", "auto", "keepData", "condition", "paged", "default">>
    \o [i \in 1..Len(options.hooks) |-> options.hooks[i].key]

\* key.startsWith('on')
StartsWithOn(key) == Len(key) >= 2 /\ SubSeq(key, 1, 2) = "on"

\* options[key] for a key of the hooks
HookValue(options, key) ==
    LET i == CHOOSE j \in 1..Len(options.hooks) : options.hooks[j].key = key
    IN  options.hooks[i].handler

\* table[key] || []
ListOf(table, key) == IF key \in DOMAIN table THEN table[key] ELSE <<>>

\* Resource.on: the handler is stored under the event name as given
ResourceOn(r, event, handler) ==
    [r EXCEPT !.listeners =
        (event :> (ListOf(r.listeners, event) \o <<handler>>)) @@ r.listeners]

\* Resource.once
ResourceOnce(r, event, handler) ==
    [r EXCEPT !.onceListeners =
        (event :> (ListOf(r.onceListeners, event) \o <<handler>>))
            @@ r.onceListeners]

\* lines 108-113: this.on(key, options[key]) for the keys that start with 'on'
RECURSIVE RegisterHooks(_, _, _)
RegisterHooks(r, options, keys) ==
    IF keys = <<>> THEN r
    ELSE RegisterHooks(ResourceOn(r, Head(keys), HookValue(options, Head(keys))),
                       options, Tail(keys))

\* condition: options.condition || (() => true)
ConditionOf(options) == IF options.condition = "" THEN "true" ELSE options.condition

\* this.condition(): the default, a constant false, or a read of host state
EvalCondition(condition, flag) ==
    CASE condition = "true" -> TRUE
      [] condition = "false" -> FALSE
      [] OTHER -> flag

\* update() that accepts any method
MethodNeverChanges(r, options) == FALSE

\* line 93: the method of an existing resource cannot change
MethodChanges(r, options) ==
    r.method # "" /\ options.method # "" /\ options.method # r.method

\* a listener table that update() keeps
ListenersKept(table) == table

\* lines 106-107: update() replaces each listener table by Object.create(null)
ListenersReset(table) == <<>>

\* Resource.update: [threw, r]
ResourceUpdate(r, options0, initialValue) ==
    LET options == Normalize(options0) IN
    IF MethodChanges(r, options)
    THEN [threw |-> TRUE, r |-> r]
    ELSE LET cleared ==
                 [method |-> r.method,
                  params |-> options.params,
                  auto |-> options.auto,
                  keepData |-> options.keepData,
                  condition |-> ConditionOf(options),
                  paged |-> options.paged,
                  listeners |-> ListenersReset(r.listeners),
                  onceListeners |-> ListenersReset(r.onceListeners),
                  data |-> OrElse(initialValue, OrElse(options.default, Null)),
                  error |-> NULL,
                  loading |-> FALSE,
                  lastLoaded |-> NullTime]
         IN  [threw |-> FALSE,
              r |-> RegisterHooks(cleared, options,
                                  SelectSeq(OptionKeys(options), StartsWithOn))]

\* the fields of an object under construction, before this.method is set
Blank ==
    [method |-> "", params |-> NULL, auto |-> FALSE, keepData |-> FALSE,
     condition |-> "true", paged |-> FALSE, listeners |-> <<>>,
     onceListeners |-> <<>>, data |-> Null, error |-> NULL, loading |-> FALSE,
     lastLoaded |-> NullTime]

\* new Resource(vm, options): [threw, r]
ResourceNew(options0) ==
    LET options == Normalize(options0) IN
    IF options.method = ""
    THEN [threw |-> TRUE, r |-> Blank]
    ELSE ResourceUpdate([Blank EXCEPT !.method = options.method], options, Undefined)

\* Handlers are the caller's functions.  The model takes a handler to return
\* or to throw, and not to call back into the resource; hThrow is a handler
\* that throws.
Throws(handler) == handler = "hThrow"

\* the arguments emit passes on: the data (Success), the error string
\* (Error), or nothing
NoArg == [value |-> Undefined, text |-> NULL]
ValueArg(x) == [value |-> x, text |-> NULL]
TextArg(str) == [value |-> Undefined, text |-> str]

\* what a handler can read of the resource while it runs
Seen(r) ==
    [data |-> r.data, error |-> r.error, loading |-> r.loading,
     lastLoaded |-> r.lastLoaded]

\* runHandler that lets the exception of a handler pass
RunHandlerNoCatch(handler) == [threw |-> Throws(handler), caught |-> FALSE]

\* lines 180-186, runHandler: the try block calls the handler, the catch
\* block logs what it throws
RunHandler(handler) == [threw |-> Throws(handler), caught |-> Throws(handler)]

\* one invocation by runHandler: the handler, whether emit took it from the
\* one-shot list, the argument, what the handler could read, and whether it
\* threw and runHandler caught that
Invocation(handler, once, r, arg) ==
    [h |-> handler, once |-> once, arg |-> arg, seen |-> Seen(r),
     threw |-> RunHandler(handler).threw, caught |-> RunHandler(handler).caught]

\* an exception of a handler left runHandler
Escaped(list) == \E i \in 1..Len(list) : list[i].threw /\ ~list[i].caught

\* lines 168-170: listeners.forEach(runHandler)
RunPersistent(list, r, arg) ==
    [i \in 1..Len(list) |-> Invocation(list[i], FALSE, r, arg)]

\* Array.prototype.indexOf: the first position of the handler
IndexOf(list, handler) == CHOOSE i \in 1..Len(list) :
    list[i] = handler /\ \A j \in 1..(i - 1) : list[j] # handler

\* Array.prototype.splice(index, 1)
Splice(list, index) == SubSeq(list, 1, index - 1) \o SubSeq(list, index + 1, Len(list))

\* lines 171-178: forEach visits index i while i is inside the array as it is
\* then; the callback runs the handler and splices it out of the same array
RECURSIVE RunOnce(_, _, _, _, _)
RunOnce(list, i, done, r, arg) ==
    IF i > Len(list)
    THEN [list |-> list, fired |-> done]
    ELSE RunOnce(Splice(list, IndexOf(list, list[i])), i + 1,
                 Append(done, Invocation(list[i], TRUE, r, arg)), r, arg)

\* Resource.emit(event, arg): [r, fired]
ResourceEmit(r, event, arg) ==
    LET key == "on" \o event
        persistent == RunPersistent(ListOf(r.listeners, key), r, arg)
    IN  IF key \in DOMAIN r.onceListeners
        THEN LET once == RunOnce(r.onceListeners[key], 1, <<>>, r, arg)
             IN  [r |-> [r EXCEPT !.onceListeners[key] = once.list],
                  fired |-> persistent \o once.fired]
        ELSE [r |-> r, fired |-> persistent]

\* fetch() that starts without setting loading
FetchBeginLoadingUnset(r, flag) ==
    IF ~EvalCondition(r.condition, flag)
    THEN [skipped |-> TRUE, r |-> r]
    ELSE [skipped |-> FALSE, r |-> r]

\* fetch() without the condition guard
FetchBeginUnguarded(r, flag) ==
    [skipped |-> FALSE, r |-> [r EXCEPT !.loading = TRUE]]

\* lines 123-127, fetch() up to the await: [skipped, r]
FetchBegin(r, flag) ==
    IF ~EvalCondition(r.condition, flag)
    THEN [skipped |-> TRUE, r |-> r]
    ELSE [skipped |-> FALSE, r |-> [r EXCEPT !.loading = TRUE]]

\* a response that is dropped when the resource already has data
FetchDataKeepsFirst(r, response) ==
    IF Truthy(r.data) /\ ~r.paged THEN r.data
    ELSE IF IsArray(response) /\ r.paged
    THEN Concat(OrElse(r.data, Arr(<<>>)), response)
    ELSE response

\* a paged response that replaces the data
FetchDataReplaces(r, response) == response

\* a paged response that is put in front of the data
FetchDataPrepends(r, response) ==
    IF IsArray(response) /\ r.paged
    THEN Concat(response, OrElse(r.data, Arr(<<>>)))
    ELSE response

\* lines 128-132: the data a successful response leaves
FetchData(r, response) ==
    IF IsArray(response) /\ r.paged
    THEN Concat(OrElse(r.data, Arr(<<>>)), response)
    ELSE response

\* error.messages.join('\n')
RECURSIVE Join(_)
Join(messages) ==
    IF Len(messages) = 0 THEN ""
    ELSE IF Len(messages) = 1 THEN messages[1]
    ELSE messages[1] \o "\n" \o Join(Tail(messages))

\* fetch() that ends without clearing loading
FetchEndStillLoading(r, time) == [r EXCEPT !.lastLoaded = time]

\* lines 138-139
FetchEnd(r, time) == [r EXCEPT !.lastLoaded = time, !.loading = FALSE]

\* An exception that leaves emit is not one fetch() can handle: thrown in
\* the try block it reaches line 135, where it has no messages to join, and
\* thrown from there it leaves the catch block; either way fetch() rejects
\* and lines 138-139 do not run.
\* fetch() that resets the error when the call resolved
FetchResolvedClearsError(r, response, time) ==
    LET stored == [r EXCEPT !.data = FetchData(r, response), !.error = NULL]
        e == ResourceEmit(stored, "Success", ValueArg(stored.data))
    IN  [r |-> IF Escaped(e.fired) THEN e.r ELSE FetchEnd(e.r, time),
         fired |-> e.fired, threw |-> Escaped(e.fired)]

\* fetch() that writes lastLoaded and loading before it emits
FetchResolvedEndsFirst(r, response, time) ==
    LET stored == FetchEnd([r EXCEPT !.data = FetchData(r, response)], time)
        e == ResourceEmit(stored, "Success", ValueArg(stored.data))
    IN  [r |-> e.r, fired |-> e.fired, threw |-> Escaped(e.fired)]

\* lines 128-139, fetch() after the call resolved: [r, fired, threw]
FetchResolved(r, response, time) ==
    LET stored == [r EXCEPT !.data = FetchData(r, response)]
        e == ResourceEmit(stored, "Success", ValueArg(stored.data))
    IN  [r |-> IF Escaped(e.fired) THEN e.r ELSE FetchEnd(e.r, time),
         fired |-> e.fired, threw |-> Escaped(e.fired)]

\* fetch() that drops the data when the call rejected
FetchRejectedClearsData(r, messages, time) ==
    LET stored == [r EXCEPT !.error = Join(messages), !.data = Null]
        e == ResourceEmit(stored, "Error", TextArg(stored.error))
    IN  [r |-> IF Escaped(e.fired) THEN e.r ELSE FetchEnd(e.r, time),
         fired |-> e.fired, threw |-> Escaped(e.fired)]

\* lines 134-139, fetch() after the call rejected: [r, fired, threw]
FetchRejected(r, messages, time) ==
    LET stored == [r EXCEPT !.error = Join(messages)]
        e == ResourceEmit(stored, "Error", TextArg(stored.error))
    IN  [r |-> IF Escaped(e.fired) THEN e.r ELSE FetchEnd(e.r, time),
         fired |-> e.fired, threw |-> Escaped(e.fired)]

\* the arguments of call(this.method, this.params), with the resource that
\* awaits the result
Call(key, r) == [key |-> key, method |-> r.method, params |-> r.params]

(***************************************************************************)
(* ResourceManager                                                         *)
(***************************************************************************)
\* cancel() that withdraws the calls of the resource still in flight
ResourceCancelAborts(cs, key) == SelectSeq(cs, LAMBDA c : c.key # key)

\* line 150, cancel() {}: the calls in flight stay as they are
ResourceCancel(cs, key) == cs

\* a manager that reloads whatever the auto flag says
ReloadsAlways(r) == TRUE

\* lines 24 and 68: if (resource.auto) resource.reload()
Reloads(r) == r.auto

\* updateResource() that never restores the data
KeepDataDropped(r, oldData) == r

\* lines 64-66: keep data if it is needed between refreshes
KeepData(r, oldData) == IF r.keepData THEN [r EXCEPT !.data = oldData] ELSE r

\* updateResource up to and including lines 64-66: [threw, isNew, r]
UpdateResourceBody(rs, key, newValue) ==
    LET isNew == key \notin DOMAIN rs
        made == IF isNew THEN ResourceNew(newValue)
                ELSE [threw |-> FALSE, r |-> rs[key]]
    IN  IF made.threw
        THEN [threw |-> TRUE, registered |-> FALSE, r |-> made.r]
        ELSE LET oldData == made.r.data
                 u == ResourceUpdate(made.r, newValue, Undefined)
             IN  IF u.threw
                 THEN [threw |-> TRUE, registered |-> TRUE, r |-> made.r]
                 ELSE [threw |-> FALSE, registered |-> TRUE,
                       r |-> KeepData(u.r, oldData)]

(***************************************************************************)
(* History kept for the properties: what the last operation was, and what  *)
(* happened to one handler since the on() / once() call that registered    *)
(* it last.                                                                *)
(***************************************************************************)
\* op: the operation; threw: it ended by throwing; fetch: "none" when it
\* called no fetch(), else whether that fetch() "skipped" on the condition
\* or "started" a call; emitted: the event it emitted, if any; params: the
\* params of the call whose outcome it applied, if any; held: the handlers
\* the resource held when an update() began
Op(op, threw, fetch, emitted) ==
    [op |-> op, threw |-> threw, fetch |-> fetch, emitted |-> emitted,
     params |-> "", held |-> 0]

Settled(op, threw, emitted, call) ==
    [Op(op, threw, "none", emitted) EXCEPT !.params = call.params]

FetchOutcome(b) == IF b.skipped THEN "skipped" ELSE "started"

\* the data at the last update() or replacing response, and the sequences
\* that paged responses appended since; seq: each of those fetches settled
\* with no other call in flight
Accumulated(base) == [base |-> base, pages |-> <<>>, seq |-> TRUE]

NoteResolved(a, r, response, data, alone) ==
    IF IsArray(response) /\ r.paged
    THEN [a EXCEPT !.pages = Append(@, response), !.seq = @ /\ alone]
    ELSE Accumulated(data)

Min(a, b) == IF a < b THEN a ELSE b

\* the handler whose history is kept
Probe == "h1"

Unregistered == [kind |-> "none", ev |-> "", fresh |-> FALSE, emits |-> 0, calls |-> 0]

\* the handler is in some list of the resource
Registered(r, handler) ==
    \/ \E key \in DOMAIN r.listeners :
           \E i \in 1..Len(r.listeners[key]) : r.listeners[key][i] = handler
    \/ \E key \in DOMAIN r.onceListeners :
           \E i \in 1..Len(r.onceListeners[key]) : r.onceListeners[key][i] = handler

\* on(event, handler) or once(event, handler) was called on resource r
NoteRegistered(s, r, kind, event, handler) ==
    IF handler # Probe THEN s
    ELSE [kind |-> kind, ev |-> event, fresh |-> ~Registered(r, handler),
          emits |-> 0, calls |-> 0]

Invocations(list, handler) ==
    Cardinality({i \in 1..Len(list) : list[i].h = handler})

\* the name a handler was registered under stands for the event: the event
\* itself as on() and once() take it, or a key on<Event> / once<Event>
NamesEvent(name, event) == name \in {event, "on" \o event, "once" \o event}

\* emit(event) ran and invoked the handlers of list
NoteEmitted(s, event, list) ==
    IF s.kind = "none" THEN s
    ELSE [s EXCEPT
            !.emits = IF NamesEvent(s.ev, event) THEN Min(@ + 1, MaxCount) ELSE @,
            !.calls = Min(@ + Invocations(list, Probe), MaxCount)]

\* update() emptied the tables and registered the hooks of the options
RECURSIVE NoteHooks(_, _, _, _)
NoteHooks(s, r, options, keys) ==
    IF keys = <<>> THEN s
    ELSE LET handler == HookValue(options, Head(keys))
         IN  NoteHooks(NoteRegistered(s, r, "on", Head(keys), handler),
                       ResourceOn(r, Head(keys), handler), options, Tail(keys))

NoteUpdated(options) ==
    NoteHooks(Unregistered, Blank, options,
              SelectSeq(OptionKeys(options), StartsWithOn))

RECURSIVE SumLen(_, _)
SumLen(table, keys) ==
    IF keys = {} THEN 0
    ELSE LET key == CHOOSE x \in keys : TRUE
         IN  Len(table[key]) + SumLen(table, keys \ {key})

\* handlers held by the resource, over both tables
TotalListeners(r) ==
    SumLen(r.listeners, DOMAIN r.listeners)
        + SumLen(r.onceListeners, DOMAIN r.onceListeners)

(***************************************************************************)
(* The state after new ResourceManager(vm, resourceDefs) with one key:     *)
(* a static definition is constructed (and reloaded if auto), a function   *)
(* definition leaves the mapping empty until its watcher fires.            *)
(***************************************************************************)
StaticDefs == {def \in Defs : ~ResourceNew(def).threw}

InitStatic(key, def) ==
    LET r == ResourceNew(def).r
        b == IF Reloads(r) THEN FetchBegin(r, vmFlag) ELSE [skipped |-> TRUE, r |-> r]
    IN  /\ resources = (key :> b.r)
        /\ calls = IF b.skipped THEN <<>> ELSE <<Call(key, b.r)>>
        /\ callCount = IF b.skipped THEN 0 ELSE 1
        /\ since = NoteUpdated(Normalize(def))
        /\ acc = Accumulated(r.data)
        /\ last = Op("construct", FALSE,
                     IF Reloads(r) THEN FetchOutcome(b) ELSE "none", "")

InitDynamic ==
    /\ resources = <<>>
    /\ calls = <<>>
    /\ callCount = 0
    /\ since = Unregistered
    /\ acc = Accumulated(Null)
    /\ last = Op("construct", FALSE, "none", "")

Init ==
    /\ vmFlag \in BOOLEAN
    /\ now = 1
    /\ fired = <<>>
    /\ \/ InitDynamic
       \/ \E key \in Keys, def \in StaticDefs : InitStatic(key, def)

(***************************************************************************)
(* Operations                                                              *)
(***************************************************************************)
\* fetch(), reload() and submit() up to the await
FetchCalled(key, op) ==
    /\ key \in DOMAIN resources
    /\ LET b == FetchBegin(resources[key], vmFlag) IN
       /\ ~b.skipped => callCount < MaxCalls
       /\ resources' = [resources EXCEPT ![key] = b.r]
       /\ calls' = IF b.skipped THEN calls ELSE Append(calls, Call(key, b.r))
       /\ callCount' = IF b.skipped THEN callCount ELSE callCount + 1
       /\ last' = Op(op, FALSE, FetchOutcome(b), "")
    /\ fired' = <<>>
    /\ UNCHANGED <<now, vmFlag, since, acc>>

Fetch(key) == FetchCalled(key, "fetch")

\* line 143
Reload(key) == FetchCalled(key, "reload")

\* line 147
Submit(key) == FetchCalled(key, "submit")

\* the call collaborator resolves call i: the rest of that fetch() runs
CallResolves(i, response) ==
    /\ i \in 1..Len(calls)
    /\ LET key == calls[i].key
           f == FetchResolved(resources[key], response, now + 1)
       IN  /\ resources' = [resources EXCEPT ![key] = f.r]
           /\ fired' = f.fired
           /\ since' = NoteEmitted(since, "Success", f.fired)
           /\ acc' = NoteResolved(acc, resources[key], response, f.r.data,
                                   Len(calls) = 1)
    /\ calls' = Splice(calls, i)
    /\ now' = now + 1
    /\ last' = Settled("resolved", FetchResolved(resources[calls[i].key], response,
                                                 now + 1).threw,
                       "Success", calls[i])
    /\ UNCHANGED <<callCount, vmFlag>>

\* the call collaborator rejects call i with an error carrying messages
CallRejects(i, messages) ==
    /\ i \in 1..Len(calls)
    /\ LET key == calls[i].key
           f == FetchRejected(resources[key], messages, now + 1)
       IN  /\ resources' = [resources EXCEPT ![key] = f.r]
           /\ fired' = f.fired
           /\ since' = NoteEmitted(since, "Error", f.fired)
    /\ calls' = Splice(calls, i)
    /\ now' = now + 1
    /\ last' = Settled("rejected", FetchRejected(resources[calls[i].key], messages,
                                                 now + 1).threw,
                       "Error", calls[i])
    /\ UNCHANGED <<callCount, vmFlag, acc>>

\* resource.update(options, initialValue) called on a registered resource
Update(key, options, initialValue) ==
    /\ key \in DOMAIN resources
    /\ LET u == ResourceUpdate(resources[key], options, initialValue) IN
       /\ resources' = [resources EXCEPT ![key] = u.r]
       /\ since' = IF u.threw THEN since ELSE NoteUpdated(Normalize(options))
       /\ acc' = IF u.threw THEN acc ELSE Accumulated(u.r.data)
       /\ last' = [Op("update", u.threw, "none", "")
                   EXCEPT !.held = TotalListeners(resources[key])]
    /\ fired' = <<>>
    /\ UNCHANGED <<calls, callCount, now, vmFlag>>

\* the oldValue a watcher passes: none on its first, immediate run, which
\* finds no resource under the key, and the value of the run before after
\* that (TRUE: an old value is present)
OldValues(rs, key) == IF key \in DOMAIN rs THEN {TRUE} ELSE {FALSE, TRUE}

\* updateResource(key, newValue, oldValue), the callback of a watcher;
\* lines 58-60 call cancel() once the resource exists and oldValue is set
UpdateResource(key, newValue, oldValue) ==
    LET u == UpdateResourceBody(resources, key, newValue)
        reloads == ~u.threw /\ Reloads(u.r)
        b == IF reloads THEN FetchBegin(u.r, vmFlag)
             ELSE [skipped |-> TRUE, r |-> u.r]
        cs == IF oldValue /\ u.registered THEN ResourceCancel(calls, key)
              ELSE calls
    IN  /\ oldValue \in OldValues(resources, key)
        /\ ~b.skipped => callCount < MaxCalls
        /\ resources' = IF u.registered THEN (key :> b.r) @@ resources ELSE resources
        /\ calls' = IF b.skipped THEN cs ELSE Append(cs, Call(key, b.r))
        /\ callCount' = IF b.skipped THEN callCount ELSE callCount + 1
        /\ since' = IF u.threw THEN since ELSE NoteUpdated(Normalize(newValue))
        /\ acc' = IF u.threw THEN acc ELSE Accumulated(b.r.data)
        /\ last' = [Op("updateResource", u.threw,
                       IF reloads THEN FetchOutcome(b) ELSE "none", "")
                    EXCEPT !.held = IF key \in DOMAIN resources
                                    THEN TotalListeners(resources[key]) ELSE 0]
        /\ fired' = <<>>
        /\ UNCHANGED <<now, vmFlag>>

\* host state read by a condition changes
HostChanges ==
    /\ vmFlag' = ~vmFlag
    /\ last' = Op("host", FALSE, "none", "")
    /\ fired' = <<>>
    /\ UNCHANGED <<resources, calls, callCount, now, since, acc>>

\* resource.on(event, handler)
On(key, event, handler) ==
    /\ key \in DOMAIN resources
    /\ TotalListeners(resources[key]) < MaxListeners
    /\ resources' = [resources EXCEPT ![key] = ResourceOn(@, event, handler)]
    /\ since' = NoteRegistered(since, resources[key], "on", event, handler)
    /\ last' = Op("on", FALSE, "none", "")
    /\ fired' = <<>>
    /\ UNCHANGED <<calls, callCount, now, vmFlag, acc>>

\* resource.once(event, handler)
Once(key, event, handler) ==
    /\ key \in DOMAIN resources
    /\ TotalListeners(resources[key]) < MaxListeners
    /\ resources' = [resources EXCEPT ![key] = ResourceOnce(@, event, handler)]
    /\ since' = NoteRegistered(since, resources[key], "once", event, handler)
    /\ last' = Op("once", FALSE, "none", "")
    /\ fired' = <<>>
    /\ UNCHANGED <<calls, callCount, now, vmFlag, acc>>

\* resource.emit(event)
Emit(key, event) ==
    /\ key \in DOMAIN resources
    /\ LET e == ResourceEmit(resources[key], event, NoArg) IN
       /\ resources' = [resources EXCEPT ![key] = e.r]
       /\ fired' = e.fired
       /\ since' = NoteEmitted(since, event, e.fired)
       /\ last' = Op("emit", Escaped(e.fired), "none", event)
    /\ UNCHANGED <<calls, callCount, now, vmFlag, acc>>

Next ==
    \/ \E key \in Keys : Fetch(key)
    \/ \E key \in Keys : Reload(key)
    \/ \E key \in Keys : Submit(key)
    \/ \E i \in 1..MaxCalls, response \in Responses : CallResolves(i, response)
    \/ \E i \in 1..MaxCalls, messages \in Failures : CallRejects(i, messages)
    \/ \E key \in Keys, options \in Defs, initialValue \in InitialValues :
           Update(key, options, initialValue)
    \/ \E key \in Keys, newValue \in Defs, oldValue \in BOOLEAN :
           UpdateResource(key, newValue, oldValue)
    \/ HostChanges

Spec == Init /\ [][Next]_vars


\* the event interface of one resource: on, once and emit called by
\* consumers on a resource built from a static definition
EventDefs ==
    { Options("a", NULL, FALSE, FALSE, "", FALSE, Undefined, NoHooks),
      Options("a", NULL, FALSE, FALSE, "", FALSE, Undefined,
              <<Hook("onSuccess", "h2")>>) }

InitEvents ==
    /\ vmFlag = FALSE
    /\ now = 1
    /\ fired = <<>>
    /\ \E key \in Keys, def \in EventDefs : InitStatic(key, def)

NextEvents ==
    \/ \E key \in Keys, event \in EventArgs, handler \in Handlers :
           On(key, event, handler)
    \/ \E key \in Keys, event \in EventArgs, handler \in Handlers :
           Once(key, event, handler)
    \/ \E key \in Keys, event \in Events : Emit(key, event)

SpecEvents == InitEvents /\ [][NextEvents]_vars

\* consumers register handlers, one of which throws, under the keys emit
\* reads, while the resource fetches and is configured again
ListenerKeys == {"onSuccess", "onError"}
ConsumerHandlers == {"h2", "hThrow"}
HandlerResponses == {Arr(<<1>>)}
HandlerFailures == {<<"e1">>}

NextHandlers ==
    \/ \E key \in Keys, event \in ListenerKeys, handler \in ConsumerHandlers :
           On(key, event, handler)
    \/ \E key \in Keys, event \in ListenerKeys, handler \in ConsumerHandlers :
           Once(key, event, handler)
    \/ \E key \in Keys : Fetch(key)
    \/ \E i \in 1..MaxCalls, response \in HandlerResponses :
           CallResolves(i, response)
    \/ \E i \in 1..MaxCalls, messages \in HandlerFailures :
           CallRejects(i, messages)
    \/ \E key \in Keys, options \in EventDefs : Update(key, options, Undefined)
    \/ \E key \in Keys, newValue \in EventDefs :
           UpdateResource(key, newValue, TRUE)

SpecHandlers == InitEvents /\ [][NextHandlers]_vars

\* a resource whose handlers throw, fetched and configured again while its
\* calls settle
LiveDefs ==
    { Options("a", "p1", FALSE, FALSE, "", FALSE, Undefined, NoHooks),
      Options("a", NULL, TRUE, FALSE, "vm", FALSE, Undefined, NoHooks),
      Options("a", "p2", TRUE, FALSE, "", FALSE, Undefined,
              <<Hook("onSuccess", "hThrow"), Hook("onError", "hThrow")>>) }

InitLive ==
    /\ vmFlag \in BOOLEAN
    /\ now = 1
    /\ fired = <<>>
    /\ \E key \in Keys, def \in LiveDefs : InitStatic(key, def)

\* the call collaborator settles call i, one way or the other
SettleAt(i) ==
    \/ \E response \in HandlerResponses : CallResolves(i, response)
    \/ \E messages \in HandlerFailures : CallRejects(i, messages)

NextLive ==
    \/ \E key \in Keys : Fetch(key)
    \/ \E i \in 1..MaxCalls : SettleAt(i)
    \/ \E key \in Keys, options \in LiveDefs : Update(key, options, Undefined)
    \/ \E key \in Keys, newValue \in LiveDefs :
           UpdateResource(key, newValue, TRUE)
    \/ HostChanges

\* every invocation of the call collaborator eventually resolves or rejects
\* with a list of messages: a call keeps or lowers its place among the calls
\* in flight until it settles, so fairness for each place is fairness for
\* each call
SpecLive ==
    InitLive /\ [][NextLive]_vars /\ \A i \in 1..MaxCalls : WF_vars(SettleAt(i))

(***************************************************************************)
(* Properties                                                              *)
(***************************************************************************)
FetchOps == {"fetch", "reload", "submit"}

\* the calls of the call collaborator that fetches of the resource await
InFlight(key) == {i \in 1..Len(calls) : calls[i].key = key}

\* this step is a fetch() / reload() / submit() that returned at the guard
SkipStep == last'.op \in FetchOps /\ last'.fetch = "skipped"

\* this step is the rest of a fetch() after its call resolved or rejected
SettleStep == last'.op \in {"resolved", "rejected"}

\* C1 as stated: after a fetch() call settles, by success, by failure or by
\* returning early on a false condition, loading is false.
C1_LoadingFalseAfterAnySettle ==
    [][\A key \in DOMAIN resources :
          (SettleStep \/ SkipStep) => ~resources'[key].loading]_vars

\* C1 amended: after a fetch() call settles by success or by failure,
\* loading is false; a fetch() that returns early on a false condition
\* leaves loading as it was, which is false unless another fetch() on the
\* resource is still in flight.
C1_LoadingFalseAfterSettle ==
    [][\A key \in DOMAIN resources :
          /\ SettleStep => ~resources'[key].loading
          /\ SkipStep => resources'[key].loading = resources[key].loading
          /\ SkipStep /\ InFlight(key) = {} => ~resources'[key].loading]_vars

\* a fetch settled while another one on the resource was still in flight
C1_Witness ==
    \E key \in DOMAIN resources :
        /\ last.op \in {"resolved", "rejected"}
        /\ InFlight(key) # {}
        /\ ~resources[key].loading

\* C2 as stated: loading is true exactly when at least one fetch() on the
\* resource has passed the guard, invoked the call and not yet settled.
C2_LoadingIffInFlight ==
    \A key \in DOMAIN resources : resources[key].loading <=> InFlight(key) # {}

\* C2 amended: while loading is true at least one fetch() is in flight; a
\* fetch() that passes the guard sets loading, and every settling fetch()
\* and every accepted update() clears it (updateResource() too, unless its
\* reload starts a call), also while other fetches are still in flight.
C2_LoadingWhileInFlight ==
    /\ [](\A key \in DOMAIN resources :
             resources[key].loading => InFlight(key) # {})
    /\ [][\A key \in DOMAIN resources' :
             /\ last'.fetch = "started" => resources'[key].loading
             /\ SettleStep => ~resources'[key].loading
             /\ last'.op \in {"update", "updateResource"} /\ ~last'.threw
                  /\ last'.fetch # "started" => ~resources'[key].loading]_vars

\* two fetches on one resource are in flight and loading is true
C2_Witness ==
    \E key \in DOMAIN resources :
        resources[key].loading /\ Cardinality(InFlight(key)) >= 2

\* C3: fetch(), reload() or submit() on a resource whose condition() is
\* false leaves data, error, loading and lastLoaded unchanged, invokes the
\* call collaborator zero times and emits no event.
C3_FalseConditionNoEffect ==
    [][\A key \in DOMAIN resources :
          last'.op \in FetchOps
              /\ ~EvalCondition(resources[key].condition, vmFlag)
          => /\ resources'[key].data = resources[key].data
             /\ resources'[key].error = resources[key].error
             /\ resources'[key].loading = resources[key].loading
             /\ resources'[key].lastLoaded = resources[key].lastLoaded
             /\ callCount' = callCount
             /\ calls' = calls
             /\ fired' = <<>>
             /\ last'.emitted = ""]_vars

\* reload() returned at the guard on a resource that holds fetched data
C3_Witness ==
    \E key \in DOMAIN resources :
        /\ last.op = "reload"
        /\ last.fetch = "skipped"
        /\ resources[key].data # Null
        /\ resources[key].lastLoaded # NullTime

\* a value as the list a paged fetch appends to: null is the empty list, a
\* sequence is itself, any other value is a list of that one value
AsList(x) ==
    IF ~Truthy(x) THEN <<>>
    ELSE IF IsArray(x) THEN x.v
    ELSE <<0 - x.v[1]>>

RECURSIVE Flatten(_)
Flatten(pages) ==
    IF pages = <<>> THEN <<>> ELSE Head(pages).v \o Flatten(Tail(pages))

IsPrefix(s, t) == Len(s) <= Len(t) /\ SubSeq(t, 1, Len(s)) = s

\* C4: on a paged resource, successful fetches that return the sequences
\* s1, ..., sn with no update() in between leave data equal to the data held
\* before the first of them (null as the empty sequence) followed by
\* s1, ..., sn in that order.  Stated for every order of settling, which
\* covers the sequential one.
C4_PagedFetchesConcatenate ==
    \A key \in DOMAIN resources :
        acc.pages # <<>> =>
            resources[key].data = Arr(AsList(acc.base) \o Flatten(acc.pages))

\* two sequential fetches returned [1] and then [2] to a paged resource
\* that held null
C4_Witness ==
    \E key \in DOMAIN resources :
        /\ acc = [base |-> Null, pages |-> <<Arr(<<1>>), Arr(<<2>>)>>, seq |-> TRUE]
        /\ resources[key].paged
        /\ InFlight(key) = {}
        /\ resources[key].data = Arr(<<1, 2>>)

\* C5 as stated: the data of a paged resource is a sequence in every state,
\* and every change of it appends: the previous data is a prefix of the new.
C5_PagedDataOnlyGrows ==
    /\ [](\A key \in DOMAIN resources :
             resources[key].paged => IsArray(resources[key].data))
    /\ [][\A key \in DOMAIN resources :
             resources[key].paged /\ resources'[key].paged
                 /\ resources'[key].data # resources[key].data
             => /\ IsArray(resources[key].data)
                /\ IsArray(resources'[key].data)
                /\ IsPrefix(resources[key].data.v, resources'[key].data.v)]_vars

\* C5 amended: on a paged resource a successful fetch whose response is a
\* sequence appends it: the new data is a sequence that starts with the
\* previous data (null as the empty sequence, a value that is no sequence as
\* one element) and ends with the response.  A response that is no sequence
\* replaces data, a failed or skipped fetch leaves it, and data is null or
\* the default until the first fetch and again after update().
C5_PagedFetchAppends ==
    [][\A key \in DOMAIN resources :
          resources[key].paged =>
              /\ last'.op = "resolved" =>
                    \A i \in 1..Len(calls), response \in Responses :
                        CallResolves(i, response) =>
                            IF IsArray(response)
                            THEN /\ IsArray(resources'[key].data)
                                 /\ IsPrefix(AsList(resources[key].data),
                                             resources'[key].data.v)
                                 /\ resources'[key].data.v =
                                        AsList(resources[key].data) \o response.v
                            ELSE resources'[key].data = response
              /\ last'.op \in FetchOps \cup {"rejected", "host"} =>
                    resources'[key].data = resources[key].data]_vars

\* a sequence was appended to a paged resource whose data was the default
\* object
C5_Witness ==
    \E key \in DOMAIN resources :
        /\ last.op = "resolved"
        /\ resources[key].paged
        /\ resources[key].data = Arr(<<0 - 1, 2>>)

\* the options name a method, and it is not the method of the resource
NamesOtherMethod(r, options) ==
    options.method # "" /\ options.method # r.method

\* C9: updateResource(key, newValue, oldValue) on a key that names a
\* resource, when it returns: with keepData in newValue the data is the
\* data held before the call, whatever default newValue carries, and with
\* keepData false it is newValue's default or null; the params are
\* newValue's params.
C9_KeepDataAcrossUpdate ==
    [][\A key \in DOMAIN resources :
          last'.op = "updateResource" /\ ~last'.threw =>
              \A newValue \in Defs, oldValue \in BOOLEAN :
                  UpdateResource(key, newValue, oldValue) =>
                      /\ resources'[key].params = newValue.params
                      /\ newValue.keepData =>
                            resources'[key].data = resources[key].data
                      /\ ~newValue.keepData =>
                            resources'[key].data =
                                IF Truthy(newValue.default)
                                THEN newValue.default ELSE Null]_vars

\* updateResource() with keepData and a default object left the fetched
\* sequence in data and took the new params
C9_Witness ==
    \E key \in DOMAIN resources :
        /\ last.op = "updateResource"
        /\ ~last.threw
        /\ resources[key].keepData
        /\ resources[key].paged
        /\ resources[key].params = "p1"
        /\ IsArray(resources[key].data)
        /\ resources[key].lastLoaded = NullTime

\* C10: update() with a config or a bare string that names another method
\* than the resource's throws and leaves every field of the resource as it
\* was; reached through updateResource() the error propagates and no reload
\* starts.
C10_MethodChangeRejected ==
    [][\A key \in DOMAIN resources :
          last'.op \in {"update", "updateResource"} =>
              \A options \in Defs :
                  /\ NamesOtherMethod(resources[key], options)
                  /\ \/ \E initialValue \in InitialValues :
                            Update(key, options, initialValue)
                     \/ \E oldValue \in BOOLEAN :
                            UpdateResource(key, options, oldValue)
                  => /\ last'.threw
                     /\ resources'[key] = resources[key]
                     /\ last'.fetch = "none"
                     /\ calls' = calls
                     /\ callCount' = callCount]_vars

\* updateResource() threw on an auto resource with a fetch in flight
C10_Witness ==
    \E key \in DOMAIN resources :
        /\ last.op = "updateResource"
        /\ last.threw
        /\ resources[key].method = "a"
        /\ resources[key].loading
        /\ resources[key].auto

\* the handlers of the invocations that emit made from the persistent list,
\* and from the one-shot list
FiredFrom(list, once) ==
    LET picked == SelectSeq(list, LAMBDA x : x.once = once)
    IN  [i \in 1..Len(picked) |-> picked[i].h]

\* C6: a handler registered with once("Success", h) is invoked exactly once
\* by two emits of Success: by the first one, not by the second.
C6_OnceHandlerRunsOnce ==
    since.kind = "once" /\ since.ev = "Success" /\ since.fresh /\ since.emits >= 1
        => since.calls = 1

\* C7: a handler registered with on("Error", h) is invoked exactly twice by
\* two emits of Error, and every emit runs the persistent handlers of its
\* event in the order of their registration.
C7_OnHandlerRunsEveryTime ==
    /\ since.kind = "on" /\ since.ev = "Error" /\ since.fresh /\ since.emits = 2
       => since.calls = 2
    /\ \A key \in DOMAIN resources :
           last.emitted # "" =>
               FiredFrom(fired, FALSE) =
                   ListOf(resources[key].listeners, "on" \o last.emitted)

\* C8: an emit whose one-shot list holds h1..hn invokes each of them once,
\* in registration order, after all persistent handlers, and leaves the
\* one-shot list empty.
C8_EmitRunsEveryOnceHandler ==
    [][\A key \in DOMAIN resources :
          last'.emitted # "" =>
              LET k == "on" \o last'.emitted
                  persistent == ListOf(resources[key].listeners, k)
                  once == ListOf(resources[key].onceListeners, k)
              IN  once # <<>> =>
                      /\ FiredFrom(fired', FALSE) = persistent
                      /\ FiredFrom(fired', TRUE) = once
                      /\ \A i, j \in 1..Len(fired') :
                             ~fired'[i].once /\ fired'[j].once => i < j
                      /\ ListOf(resources'[key].onceListeners, k) = <<>>]_vars

(***************************************************************************)
(* A rejected call                                                         *)
(***************************************************************************)
\* the messages, one per line
RECURSIVE Lines(_, _)
Lines(text, messages) ==
    IF messages = <<>> THEN text
    ELSE Lines(IF text = "" THEN Head(messages)
               ELSE text \o "\n" \o Head(messages), Tail(messages))

\* C11: when the call rejects with a list of messages, fetch() throws
\* nothing: it stores the messages joined by newlines as error, emits Error
\* once with that string (each handler held for Error runs once and gets
\* it), leaves data as it was, and writes lastLoaded and loading = false.
C11_RejectionHandled ==
    [][\A i \in 1..Len(calls), messages \in Failures :
          last'.op = "rejected" /\ CallRejects(i, messages)
          => LET key == calls[i].key
                 r == resources[key]
                 after == resources'[key]
             IN  /\ ~last'.threw
                 /\ after.error = Lines("", messages)
                 /\ last'.emitted = "Error"
                 /\ FiredFrom(fired', FALSE) = ListOf(r.listeners, "onError")
                 /\ \A j \in 1..Len(fired') :
                        fired'[j].arg = TextArg(Lines("", messages))
                 /\ after.data = r.data
                 /\ after.lastLoaded = now' /\ now' > now
                 /\ ~after.loading]_vars

\* a call rejected with two messages on a resource that had data and a
\* handler for Error
C11_Witness ==
    \E key \in DOMAIN resources :
        /\ last.op = "rejected"
        /\ resources[key].error = "e1\ne2"
        /\ Truthy(resources[key].data)
        /\ Len(fired) = 1
        /\ fired[1].arg = TextArg("e1\ne2")

(***************************************************************************)
(* Handlers that throw                                                     *)
(***************************************************************************)
\* C12: when a handler throws during the emit of a fetch, every handler
\* held for the event, persistent or one-shot, is still invoked, the
\* exception does not leave the fetch, and the fetch writes lastLoaded and
\* loading = false.
C12_ThrowingHandlerIsolated ==
    [][\A key \in DOMAIN resources :
          SettleStep /\ (\E j \in 1..Len(fired') : fired'[j].threw)
          => LET name == "on" \o last'.emitted
                 r == resources[key]
                 after == resources'[key]
             IN  /\ FiredFrom(fired', FALSE) = ListOf(r.listeners, name)
                 /\ FiredFrom(fired', TRUE) = ListOf(r.onceListeners, name)
                 /\ ~last'.threw
                 /\ after.lastLoaded = now'
                 /\ ~after.loading]_vars

(***************************************************************************)
(* Handlers supplied in the config                                         *)
(***************************************************************************)
\* C13: a handler that the config supplies under once<Event> is invoked on
\* the first emit of the event after the update and on no later one (so
\* once the event was emitted it has run exactly once), while the handlers
\* supplied under on<Event> are invoked on every emit of the event.
C13_OnceHookRunsOnce ==
    /\ [](since.kind = "on" /\ since.ev = "onceSuccess" /\ since.emits >= 1
             => since.calls = 1)
    /\ [][\A key \in DOMAIN resources :
             SettleStep
             => FiredFrom(fired', FALSE)
                    = ListOf(resources[key].listeners, "on" \o last'.emitted)]_vars

(***************************************************************************)
(* The order of the steps of a fetch                                       *)
(***************************************************************************)
\* C14: a fetch that passes the guard sets loading = true and invokes the
\* call collaborator; when the call settles it writes data (or error), then
\* invokes the Success (or Error) handlers, and only then writes lastLoaded
\* and loading = false: each handler it invokes reads the new data (or
\* error) and the lastLoaded and loading from before this fetch wrote them.
C14_FetchStepOrder ==
    [][\A key \in DOMAIN resources' :
          LET after == resources'[key] IN
          /\ last'.fetch = "started"
             => /\ after.loading
                /\ calls' = Append(calls, [key |-> key, method |-> after.method,
                                           params |-> after.params])
                /\ fired' = <<>>
          /\ SettleStep
             => LET r == resources[key] IN
                /\ \A i \in 1..Len(calls), response \in Responses :
                       CallResolves(i, response) /\ ~r.paged
                       => after.data = response
                /\ \A i \in 1..Len(calls), messages \in Failures :
                       CallRejects(i, messages)
                       => after.error = Lines("", messages)
                /\ \A j \in 1..Len(fired') :
                       /\ last'.op = "resolved"
                          => /\ fired'[j].seen.data = after.data
                             /\ fired'[j].arg = ValueArg(after.data)
                       /\ last'.op = "rejected"
                          => fired'[j].seen.error = after.error
                       /\ fired'[j].seen.lastLoaded = r.lastLoaded
                       /\ fired'[j].seen.loading = r.loading
                /\ FiredFrom(fired', FALSE) = ListOf(r.listeners, "on" \o last'.emitted)
                /\ after.lastLoaded = now' /\ after.lastLoaded > r.lastLoaded
                /\ ~after.loading]_vars

\* a Success handler ran in a fetch: it read the new data while loading was
\* still true and lastLoaded still the old one
C14_Witness ==
    \E key \in DOMAIN resources :
        /\ last.op = "resolved"
        /\ Len(fired) = 1
        /\ fired[1].seen.data = resources[key].data
        /\ fired[1].seen.loading /\ ~resources[key].loading
        /\ fired[1].seen.lastLoaded < resources[key].lastLoaded

(***************************************************************************)
(* Overlapping fetches of a resource that is not paged                     *)
(***************************************************************************)
\* C15: on a resource that is not paged, whichever of the calls in flight
\* resolves, and whatever the data was, the response becomes the data; a
\* rejected call, a fetch() that starts or skips and a change of host state
\* leave the data alone. So once every call has settled the data is the
\* response that resolved last, in whatever order the fetches were started.
C15_LastResponseWins ==
    [][\A key \in DOMAIN resources :
          LET r == resources[key]
              after == resources'[key]
          IN  /\ \A i \in 1..Len(calls), response \in Responses :
                     last'.op = "resolved" /\ CallResolves(i, response)
                         /\ calls[i].key = key /\ ~r.paged
                     => after.data = response
              /\ last'.op \in FetchOps \cup {"rejected", "host"}
                 => after.data = r.data]_vars

\* two fetches of the resource were in flight at once, and the response of
\* one of them has become the data while the other is still in flight
C15_Witness ==
    \E key \in DOMAIN resources :
        /\ last.op = "resolved"
        /\ ~resources[key].paged
        /\ InFlight(key) # {}
        /\ callCount = 2
        /\ resources[key].data = Arr(<<2>>)

(***************************************************************************)
(* Reloads started by the manager                                          *)
(***************************************************************************)
\* the auto flag a definition asks for: a bare method string counts as auto
AsksAuto(def) == def.str \/ def.auto

\* the calls that an operation with this fetch outcome adds
StartedCalls(outcome) == IF outcome = "started" THEN 1 ELSE 0

\* C16: the constructor calls reload() once for a static definition that
\* asks for auto and not at all for one that does not; an updateResource
\* call that carries out the update, the one that creates the Resource of a
\* dynamic key included, calls reload() once when the new config asks for
\* auto and not at all when it does not. A reload() starts at most one call.
C16_OneReloadPerAutoConfig ==
    /\ [](\A key \in Keys, def \in StaticDefs :
             last.op = "construct" /\ InitStatic(key, def)
             => /\ last.fetch # "none" <=> AsksAuto(def)
                /\ callCount = StartedCalls(last.fetch)
                /\ Len(calls) = callCount)
    /\ [][\A key \in Keys, newValue \in Defs, oldValue \in BOOLEAN :
             last'.op = "updateResource" /\ ~last'.threw
                 /\ UpdateResource(key, newValue, oldValue)
             => /\ last'.fetch # "none" <=> AsksAuto(newValue)
                /\ callCount' = callCount + StartedCalls(last'.fetch)
                /\ Len(calls') = Len(calls) + StartedCalls(last'.fetch)]_vars

\* updateResource with an auto config started a reload while an earlier
\* call was still in flight
C16_Witness ==
    \E key \in DOMAIN resources :
        /\ last.op = "updateResource"
        /\ last.fetch = "started"
        /\ resources[key].auto
        /\ Len(calls) = 2

(***************************************************************************)
(* update() and the listener tables                                        *)
(***************************************************************************)
AllHandlers == Handlers \cup ConsumerHandlers \cup {"hThrow"}

\* the handlers a config supplies under keys on<Event> and once<Event>
HookHandlers(options) ==
    {options.hooks[i].handler : i \in 1..Len(options.hooks)}

\* C17: update() and updateResource() leave in the listener tables the
\* handlers of the new config and nothing else, one entry for each: a
\* handler registered before through on(), once() or an earlier config is
\* gone. An emit invokes only handlers that the tables hold, so none of
\* those is invoked again.
C17_UpdateResetsListeners ==
    [][\A key \in DOMAIN resources :
          /\ \A options \in Defs \cup EventDefs, value \in InitialValues,
                 oldValue \in BOOLEAN :
                 /\ last'.op \in {"update", "updateResource"} /\ ~last'.threw
                 /\ \/ Update(key, options, value)
                    \/ UpdateResource(key, options, oldValue)
                 => /\ \A handler \in AllHandlers :
                           Registered(resources'[key], handler)
                               <=> handler \in HookHandlers(options)
                    /\ TotalListeners(resources'[key]) = Len(options.hooks)
          /\ last'.emitted # ""
             => \A j \in 1..Len(fired') :
                    Registered(resources[key], fired'[j].h)]_vars

\* update() with a config that has no handlers ran on a resource that held
\* two, at least one of them registered through on() or once()
C17_Witness ==
    \E key \in DOMAIN resources :
        /\ last.op = "update" /\ ~last.threw
        /\ last.held = 2
        /\ TotalListeners(resources[key]) = 0

(***************************************************************************)
(* A call that outlives the config it was started under                    *)
(***************************************************************************)
\* call i was started with other params than the resource has now, that is,
\* before an update() or updateResource()
Stale(i) == calls[i].params # resources[calls[i].key].params

C19_SuccessKeepsError ==
    [][\A key \in DOMAIN resources :
          LET r == resources[key]
              after == resources'[key]
          IN  /\ last'.op \in FetchOps \cup {"resolved", "host"}
                 => after.error = r.error
              /\ \A i \in 1..Len(calls), messages \in Failures :
                     last'.op = "rejected" /\ CallRejects(i, messages)
                     => after.error = Lines("", messages)
              /\ last'.op \in {"update", "updateResource"}
                 => after.error = IF last'.threw THEN r.error ELSE NULL]_vars

\* the latest fetch brought fresh data while error still holds the message
\* of an earlier failed fetch
C19_Witness ==
    \E key \in DOMAIN resources :
        /\ last.op = "resolved"
        /\ resources[key].data = Arr(<<2>>)
        /\ resources[key].lastLoaded = now
        /\ resources[key].error = "e1\ne2"

(***************************************************************************)
(* Termination of fetches                                                  *)
(***************************************************************************)
\* no call is in flight and no resource is loading
Quiet ==
    /\ calls = <<>>
    /\ \A key \in DOMAIN resources : ~resources[key].loading

\* C20: when every call eventually settles, every fetch that passed the
\* guard settles (the n-th call started is answered by an n-th settlement;
\* now counts the settlements from 1), and once no further fetch is
\* started no call is left in flight and loading is false for good, also
\* when handlers throw.
C20_FetchesSettle ==
    /\ \A n \in 1..MaxCalls : (callCount >= n) ~> (now > n)
    /\ <>[]Quiet

\* a fetch settled although its Error handler threw, and nothing is left
\* in flight or loading
C20_Witness ==
    /\ Quiet
    /\ last.op = "rejected"
    /\ Len(fired) = 1 /\ fired[1].threw /\ fired[1].caught
    /\ callCount = 2

====
